---- MODULE Spec2Model ----
(***************************************************************************)
(* Posting engine, reporting and party registry of the finance backend     *)
(* (src/app/main_sqlite.py), as a state machine over the SQLite store.     *)
(*                                                                         *)
(* Representation.                                                         *)
(*  - Money is an integer number of cents, a percentage an integer number  *)
(*    of percent, a rate an integer number of hundredths.  Python floats   *)
(*    are modelled as the exact decimal values; round(x, 2) is the         *)
(*    correctly rounded, ties-to-even rounding Python performs on a value  *)
(*    that is exactly representable.                                       *)
(*  - A row id is the position of the row in its table (sequence); a       *)
(*    reference-table id is represented by the code it was looked up by.   *)
(*  - A date is a day number; ISO strings of midnight datetimes order the  *)
(*    same way.                                                            *)
(*  - Each request runs on its own sqlite3 connection.  The first INSERT   *)
(*    of a connection opens its transaction and takes the database write   *)
(*    lock; `work` is the lock holder's uncommitted view, `db` is what     *)
(*    every other connection reads.  Closing a connection without commit   *)
(*    rolls its transaction back.                                          *)
(***************************************************************************)
EXTENDS Integers, Sequences, FiniteSets, TLC

VARIABLES accounts, db, work, lock, conn, resp, budget

vars == <<accounts, db, work, lock, conn, resp, budget>>

(***************************************************************************)
(* Bounds and input domains                                                *)
(***************************************************************************)
MaxReq == 2          \* posting requests of one behaviour, concurrent connections
MaxPostings == 2     \* posting requests of one behaviour, one connection
MaxLedger == 3       \* posting requests of one behaviour, ledger scenarios
MaxParties == 1      \* size of the parties table up to which POST /parties is taken
MaxCheque == 2       \* posting requests of one behaviour, cheque lifecycle scenarios
MaxRegistry == 3     \* posting requests of one behaviour, registry and report scenarios
MaxAmounts == 2      \* posting requests of one behaviour, out-of-range amounts

Conns == {"c1", "c2"}
NoLock == "none"

Names == {"A", "B"}
PartyTypes == {"client", "supplier"}
NoDate == 0
NoCurrency == ""

(***************************************************************************)
(* Reference data                                                          *)
(***************************************************************************)
SeededCurrencies == {"ARS", "USD"}

SeededOperationTypes ==
    {"FX_BUY", "FX_SELL", "PAYMENT", "RECEIPT", "CHEQUE_BUY", "CHEQUE_SELL"}

SeededAccounts ==
    {"1010", "1020", "1030", "1040", "1100", "1101", "2100", "2101",
     "1200", "5100", "5200", "5300", "5400", "5500"}

\* Charts of accounts the database file of a deployment may hold: the seeded
\* chart, or one from which a code has been taken out.
Charts == {SeededAccounts, SeededAccounts \ {"1010"}}

\* get_id_by_code: TRUE when the lookup returns a row, FALSE when it raises
\* HTTP 400.
get_id_by_code(table, code) ==
    CASE table = "accounts" -> code \in accounts
      [] table = "currencies" -> code \in SeededCurrencies
      [] table = "operation_types" -> code \in SeededOperationTypes
      [] OTHER -> FALSE

(***************************************************************************)
(* Arithmetic                                                              *)
(***************************************************************************)
\* round(num / den) to the unit, ties to even; den > 0.
Round(num, den) ==
    LET q == num \div den
        r == num % den
    IN  IF 2 * r < den THEN q
        ELSE IF 2 * r > den THEN q + 1
        ELSE IF q % 2 = 0 THEN q ELSE q + 1

RECURSIVE SumDebit(_)
SumDebit(s) == IF s = <<>> THEN 0 ELSE Head(s).debit + SumDebit(Tail(s))

RECURSIVE SumCredit(_)
SumCredit(s) == IF s = <<>> THEN 0 ELSE Head(s).credit + SumCredit(Tail(s))

(***************************************************************************)
(* The store                                                               *)
(***************************************************************************)
EmptyDB ==
    [parties |-> <<>>, operations |-> <<>>, journal_entries |-> <<>>,
     fx_details |-> <<>>, payment_details |-> <<>>, receipt_details |-> <<>>,
     cheques |-> <<>>]

JournalEntry(operation_id, account, debit, credit, currency) ==
    [operation_id |-> operation_id, account |-> account, debit |-> debit,
     credit |-> credit, currency |-> currency]

Operation(date, operation_type, party_id, amount, currency, exchange_rate) ==
    [date |-> date, operation_type |-> operation_type, party_id |-> party_id,
     amount |-> amount, currency |-> currency, exchange_rate |-> exchange_rate]

Insert(store, table, row) == [store EXCEPT ![table] = Append(@, row)]

RECURSIVE InsertAll(_, _, _)
InsertAll(store, table, rows) ==
    IF rows = <<>> THEN store
    ELSE InsertAll(Insert(store, table, Head(rows)), table, Tail(rows))

\* Lines of one operation, in insertion order.
LinesOf(store, operation_id) ==
    SelectSeq(store.journal_entries, LAMBDA je : je.operation_id = operation_id)

(***************************************************************************)
(* Connections                                                             *)
(***************************************************************************)
NoOp == [kind |-> "none"]
NoResp == [kind |-> "none", status |-> 0]

Idle == [pc |-> "idle", op |-> NoOp, party_id |-> 0, created |-> FALSE]

\* Faulty variant of party_by_name: names are compared without regard to
\* case (COLLATE NOCASE).
party_by_name_nocase(store, name) ==
    LET upper(n) == IF n = "a" THEN "A" ELSE IF n = "b" THEN "B" ELSE n
        ids == {i \in 1..Len(store.parties) :
                   upper(store.parties[i].name) = upper(name)}
    IN  IF ids = {} THEN 0 ELSE CHOOSE i \in ids : \A j \in ids : i <= j

\* The row `SELECT ... FROM parties WHERE name = ?` fetches first: the id of
\* the oldest party of that name, 0 when there is none.
party_by_name(store, name) ==
    LET ids == {i \in 1..Len(store.parties) : store.parties[i].name = name}
    IN  IF ids = {} THEN 0 ELSE CHOOSE i \in ids : \A j \in ids : i <= j

\* Faulty variant of get_db_connection: closing the connection commits what
\* its transaction holds.
get_db_connection_commits == work

\* The committed store once a connection that still has a transaction open
\* is closed: nothing of the transaction remains.
get_db_connection == db

\* An HTTP error response.  Besides the status it records the request and
\* whether the request had inserted a party row by then.
Error(c, op, status) ==
    [kind |-> op.kind, status |-> status, op |-> op,
     party_id |-> conn[c].party_id, created |-> conn[c].created]

\* The handler raises: the error response goes out and the connection is
\* closed.
Raise(c, op, status) ==
    /\ conn' = [conn EXCEPT ![c] = Idle]
    /\ resp' = Error(c, op, status)
    /\ IF lock = c
         THEN /\ db' = get_db_connection
              /\ work' = db'
              /\ lock' = NoLock
         ELSE UNCHANGED <<db, work, lock>>

\* A posting request arrives on a fresh connection.
Accept(c) ==
    /\ conn[c].pc = "idle"
    /\ budget > 0
    /\ budget' = budget - 1
    /\ UNCHANGED accounts

\* get_or_create_party up to its SELECT, then on to the rest of the handler.
Resolve(c, op) ==
    LET pid == party_by_name(db, op.party_name)
    IN  /\ conn' = [conn EXCEPT ![c] =
                      [pc |-> IF pid = 0 THEN "party_insert" ELSE "post",
                       op |-> op, party_id |-> pid, created |-> FALSE]]
        /\ resp' = NoResp
        /\ UNCHANGED <<db, work, lock>>

\* Faulty variant of Begin: the INSERT does not wait for the write lock, so a
\* second transaction writes over the open one.
Begin_without_lock(c, store) ==
    /\ lock' = c
    /\ work' = store
    /\ conn' = [conn EXCEPT ![c].pc = "lines"]
    /\ resp' = NoResp
    /\ UNCHANGED <<db, budget, accounts>>

\* The first INSERT of a handler: it opens the transaction, which needs the
\* write lock, and the rows go to the connection's uncommitted view.
Begin(c, store) ==
    /\ lock = NoLock
    /\ lock' = c
    /\ work' = store
    /\ conn' = [conn EXCEPT ![c].pc = "lines"]
    /\ resp' = NoResp
    /\ UNCHANGED <<db, budget, accounts>>

\* Further INSERTs inside the open transaction.
Write(c, store) ==
    /\ work' = store
    /\ conn' = [conn EXCEPT ![c].pc = "commit"]
    /\ resp' = NoResp
    /\ UNCHANGED <<db, lock, budget, accounts>>

\* db.commit() and the 200 response.
Commit(c, response) ==
    /\ db' = work
    /\ work' = work
    /\ lock' = NoLock
    /\ conn' = [conn EXCEPT ![c] = Idle]
    /\ resp' = response
    /\ UNCHANGED <<budget, accounts>>

(***************************************************************************)
(* Party registry                                                          *)
(***************************************************************************)
\* POST /parties
create_party(name, type) ==
    /\ lock = NoLock
    /\ Len(db.parties) < MaxParties
    /\ db' = Insert(db, "parties", [name |-> name, type |-> type])
    /\ work' = db'
    /\ resp' = NoResp
    /\ UNCHANGED <<accounts, lock, conn, budget>>

\* get_or_create_party after a SELECT that found no row: INSERT and commit.
get_or_create_party(c) ==
    /\ conn[c].pc = "party_insert"
    /\ lock = NoLock
    /\ db' = Insert(db, "parties", [name |-> conn[c].op.party_name, type |-> "client"])
    /\ work' = db'
    /\ conn' = [conn EXCEPT ![c].pc = "post", ![c].party_id = Len(db'.parties),
                            ![c].created = TRUE]
    /\ resp' = NoResp
    /\ UNCHANGED <<accounts, lock, budget>>

(***************************************************************************)
(* FX                                                                      *)
(***************************************************************************)
fx_ars_amount(op) == Round(op.usd_amount * op.exchange_rate, 100)

\* Faulty variant of fx_lines: a sell is posted like a buy.
fx_lines_as_buy(op, operation_id) ==
    << JournalEntry(operation_id, "1020", op.usd_amount, 0, "USD"),
       JournalEntry(operation_id, "1010", 0, fx_ars_amount(op), "ARS") >>

fx_lines(op, operation_id) ==
    IF op.fx_type = "buy"
    THEN << JournalEntry(operation_id, "1020", op.usd_amount, 0, "USD"),
            JournalEntry(operation_id, "1010", 0, fx_ars_amount(op), "ARS") >>
    ELSE << JournalEntry(operation_id, "1010", fx_ars_amount(op), 0, "ARS"),
            JournalEntry(operation_id, "1020", 0, op.usd_amount, "USD") >>

\* create_fx: validation and party lookup
create_fx(c, op) ==
    /\ op.kind = "fx"
    /\ Accept(c)
    /\ IF op.fx_type \notin {"buy", "sell"}
         THEN Raise(c, op, 400)
         ELSE Resolve(c, op)

\* create_fx: code lookups, operation header and fx_details row
create_fx_header(c) ==
    LET op == conn[c].op
        op_type_code == IF op.fx_type = "buy" THEN "FX_BUY" ELSE "FX_SELL"
        operation_id == Len(db.operations) + 1
    IN  /\ conn[c].pc = "post"
        /\ op.kind = "fx"
        /\ IF /\ get_id_by_code("operation_types", op_type_code)
              /\ get_id_by_code("currencies", "USD")
              /\ get_id_by_code("currencies", "ARS")
             THEN Begin(c, Insert(Insert(db, "operations",
                            Operation(op.date, op_type_code, conn[c].party_id,
                                      op.usd_amount, "USD", op.exchange_rate)),
                          "fx_details",
                            [operation_id |-> operation_id, usd_amount |-> op.usd_amount,
                             ars_amount |-> fx_ars_amount(op), fx_type |-> op.fx_type]))
             ELSE /\ Raise(c, op, 400)
                  /\ UNCHANGED <<budget, accounts>>

\* create_fx: account lookups and the two journal lines
create_fx_lines(c) ==
    LET op == conn[c].op
    IN  /\ conn[c].pc = "lines"
        /\ op.kind = "fx"
        /\ IF get_id_by_code("accounts", "1020") /\ get_id_by_code("accounts", "1010")
             THEN Write(c, InsertAll(work, "journal_entries",
                                     fx_lines(op, Len(work.operations))))
             ELSE /\ Raise(c, op, 400)
                  /\ UNCHANGED <<budget, accounts>>

\* create_fx: commit and response
create_fx_commit(c) ==
    /\ conn[c].pc = "commit"
    /\ conn[c].op.kind = "fx"
    /\ Commit(c, [kind |-> "fx", status |-> 200, op |-> conn[c].op,
                  operation_id |-> Len(work.operations)])

(***************************************************************************)
(* Payment                                                                 *)
(***************************************************************************)
payment_commission(op) ==
    IF op.commission_percentage # 0
    THEN Round(op.gross_amount * op.commission_percentage, 100)
    ELSE op.commission_amount

\* Faulty variant of payment_total_paid: the expenses are left out.
payment_total_paid_without_expenses(op) == op.gross_amount + payment_commission(op)

payment_total_paid(op) == op.gross_amount + payment_commission(op) + op.expenses_amount

\* Faulty variant of payment_account_code: payable and receivable are swapped.
payment_account_code_swapped(op, party_type) ==
    IF party_type = "supplier"
    THEN (IF op.currency = "ARS" THEN "1100" ELSE "1101")
    ELSE (IF op.currency = "ARS" THEN "2100" ELSE "2101")

payment_account_code(op, party_type) ==
    IF party_type = "supplier"
    THEN (IF op.currency = "ARS" THEN "2100" ELSE "2101")
    ELSE (IF op.currency = "ARS" THEN "1100" ELSE "1101")

\* Faulty variant of cash_account_code: the ARS cash account in every currency.
cash_account_code_ars(op) == "1010"

cash_account_code(op) == IF op.currency = "ARS" THEN "1010" ELSE "1020"

payment_lines(op, operation_id, party_type) ==
    LET commission == payment_commission(op)
        expenses == op.expenses_amount
    IN  << JournalEntry(operation_id, payment_account_code(op, party_type),
                        op.gross_amount, 0, op.currency) >>
        \o (IF commission > 0
            THEN << JournalEntry(operation_id, "5300", commission, 0, op.currency) >>
            ELSE << >>)
        \o (IF expenses > 0
            THEN << JournalEntry(operation_id, "5300", expenses, 0, op.currency) >>
            ELSE << >>)
        \o << JournalEntry(operation_id, cash_account_code(op), 0,
                           payment_total_paid(op), op.currency) >>

\* create_payment: amounts, currency lookup and party lookup
create_payment(c, op) ==
    /\ op.kind = "payment"
    /\ Accept(c)
    /\ IF ~get_id_by_code("currencies", op.currency)
         THEN Raise(c, op, 400)
         ELSE Resolve(c, op)

\* create_payment: party type, code lookups, operation header and detail row
create_payment_header(c) ==
    LET op == conn[c].op
        party_type == db.parties[conn[c].party_id].type
        operation_id == Len(db.operations) + 1
    IN  /\ conn[c].pc = "post"
        /\ op.kind = "payment"
        /\ IF /\ get_id_by_code("accounts", payment_account_code(op, party_type))
              /\ get_id_by_code("accounts", cash_account_code(op))
              /\ get_id_by_code("accounts", "5300")
              /\ get_id_by_code("operation_types", "PAYMENT")
             THEN Begin(c, Insert(Insert(db, "operations",
                            Operation(op.date, "PAYMENT", conn[c].party_id,
                                      op.gross_amount, op.currency, 0)),
                          "payment_details",
                            [operation_id |-> operation_id,
                             gross_amount |-> op.gross_amount,
                             commission_amount |-> payment_commission(op),
                             commission_percentage |-> op.commission_percentage,
                             expenses_amount |-> op.expenses_amount]))
             ELSE /\ Raise(c, op, 400)
                  /\ UNCHANGED <<budget, accounts>>

\* create_payment: the journal lines
create_payment_lines(c) ==
    LET op == conn[c].op
        party_type == work.parties[conn[c].party_id].type
    IN  /\ conn[c].pc = "lines"
        /\ op.kind = "payment"
        /\ Write(c, InsertAll(work, "journal_entries",
                              payment_lines(op, Len(work.operations), party_type)))

\* create_payment: commit and response
create_payment_commit(c) ==
    /\ conn[c].pc = "commit"
    /\ conn[c].op.kind = "payment"
    /\ Commit(c, [kind |-> "payment", status |-> 200, op |-> conn[c].op,
                  operation_id |-> Len(work.operations),
                  total_paid |-> payment_total_paid(conn[c].op)])

(***************************************************************************)
(* Receipt                                                                 *)
(***************************************************************************)
receipt_commission(op) ==
    IF op.commission_percentage # 0
    THEN Round(op.gross_amount * op.commission_percentage, 100)
    ELSE op.commission_amount

\* Faulty variant of receipt_net_received: the expenses are not deducted.
receipt_net_received_without_expenses(op) == op.gross_amount - receipt_commission(op)

receipt_net_received(op) == op.gross_amount - receipt_commission(op) - op.expenses_amount

receipt_account_code(op, party_type) ==
    IF party_type = "client"
    THEN (IF op.currency = "ARS" THEN "1100" ELSE "1101")
    ELSE (IF op.currency = "ARS" THEN "2100" ELSE "2101")

receipt_lines(op, operation_id, party_type) ==
    LET commission == receipt_commission(op)
        expenses == op.expenses_amount
    IN  << JournalEntry(operation_id, receipt_account_code(op, party_type),
                        0, op.gross_amount, op.currency),
           JournalEntry(operation_id, cash_account_code(op),
                        receipt_net_received(op), 0, op.currency) >>
        \o (IF commission > 0
            THEN << JournalEntry(operation_id, "5200", 0, commission, op.currency) >>
            ELSE << >>)
        \o (IF expenses > 0
            THEN << JournalEntry(operation_id, "5200", 0, expenses, op.currency) >>
            ELSE << >>)

\* create_receipt: amounts, the net check, currency lookup and party lookup
create_receipt(c, op) ==
    /\ op.kind = "receipt"
    /\ Accept(c)
    /\ IF receipt_net_received(op) < 0 \/ ~get_id_by_code("currencies", op.currency)
         THEN Raise(c, op, 400)
         ELSE Resolve(c, op)

\* create_receipt: party type, code lookups, operation header and detail row
create_receipt_header(c) ==
    LET op == conn[c].op
        party_type == db.parties[conn[c].party_id].type
        operation_id == Len(db.operations) + 1
    IN  /\ conn[c].pc = "post"
        /\ op.kind = "receipt"
        /\ IF /\ get_id_by_code("accounts", receipt_account_code(op, party_type))
              /\ get_id_by_code("accounts", cash_account_code(op))
              /\ get_id_by_code("accounts", "5200")
              /\ get_id_by_code("operation_types", "RECEIPT")
             THEN Begin(c, Insert(Insert(db, "operations",
                            Operation(op.date, "RECEIPT", conn[c].party_id,
                                      op.gross_amount, op.currency, 0)),
                          "receipt_details",
                            [operation_id |-> operation_id,
                             gross_amount |-> op.gross_amount,
                             commission_amount |-> receipt_commission(op),
                             commission_percentage |-> op.commission_percentage,
                             expenses_amount |-> op.expenses_amount]))
             ELSE /\ Raise(c, op, 400)
                  /\ UNCHANGED <<budget, accounts>>

\* create_receipt: the journal lines
create_receipt_lines(c) ==
    LET op == conn[c].op
        party_type == work.parties[conn[c].party_id].type
    IN  /\ conn[c].pc = "lines"
        /\ op.kind = "receipt"
        /\ Write(c, InsertAll(work, "journal_entries",
                              receipt_lines(op, Len(work.operations), party_type)))

\* create_receipt: commit and response
create_receipt_commit(c) ==
    /\ conn[c].pc = "commit"
    /\ conn[c].op.kind = "receipt"
    /\ Commit(c, [kind |-> "receipt", status |-> 200, op |-> conn[c].op,
                  operation_id |-> Len(work.operations),
                  net_received |-> receipt_net_received(conn[c].op)])

(***************************************************************************)
(* Cheque purchase                                                         *)
(***************************************************************************)
\* Faulty variant of cheque_days: both the date and the due date are counted.
cheque_days_inclusive(op) == op.due_date - op.date + 1

cheque_days(op) == op.due_date - op.date

cheque_interest_amount(op) ==
    Round(op.nominal_amount * op.interest_rate * cheque_days(op), 100 * op.interest_base)

cheque_net_amount(op) ==
    op.nominal_amount - cheque_interest_amount(op) - op.commissions_amount
        - op.expenses_amount

\* Faulty variant of cheque_net_refused: the check is missing.
cheque_net_refused_never(op) == FALSE

\* The net check of create_cheque_buy: TRUE when the request is refused.
cheque_net_refused(op) == cheque_net_amount(op) < 0

\* Faulty variant of cheque_lines: the nominal amount is debited on the ARS
\* receivable account instead of the cheques account.
cheque_lines_on_receivable(op, operation_id) ==
    << JournalEntry(operation_id, "1100", op.nominal_amount, 0, op.currency),
       JournalEntry(operation_id, cash_account_code(op), 0, cheque_net_amount(op),
                    op.currency) >>
    \o (IF cheque_interest_amount(op) > 0
        THEN << JournalEntry(operation_id, "5400", 0, cheque_interest_amount(op),
                             op.currency) >>
        ELSE << >>)
    \o (IF op.commissions_amount > 0
        THEN << JournalEntry(operation_id, "5200", 0, op.commissions_amount,
                             op.currency) >>
        ELSE << >>)
    \o (IF op.expenses_amount > 0
        THEN << JournalEntry(operation_id, "5300", op.expenses_amount, 0,
                             op.currency) >>
        ELSE << >>)

cheque_lines(op, operation_id) ==
    << JournalEntry(operation_id, "1200", op.nominal_amount, 0, op.currency),
       JournalEntry(operation_id, cash_account_code(op), 0, cheque_net_amount(op),
                    op.currency) >>
    \o (IF cheque_interest_amount(op) > 0
        THEN << JournalEntry(operation_id, "5400", 0, cheque_interest_amount(op),
                             op.currency) >>
        ELSE << >>)
    \o (IF op.commissions_amount > 0
        THEN << JournalEntry(operation_id, "5200", 0, op.commissions_amount,
                             op.currency) >>
        ELSE << >>)
    \o (IF op.expenses_amount > 0
        THEN << JournalEntry(operation_id, "5300", op.expenses_amount, 0,
                             op.currency) >>
        ELSE << >>)

\* create_cheque_buy: amounts, the net check, currency lookup and party lookup
create_cheque_buy(c, op) ==
    /\ op.kind = "cheque_buy"
    /\ Accept(c)
    /\ IF cheque_net_refused(op) \/ ~get_id_by_code("currencies", op.currency)
         THEN Raise(c, op, 400)
         ELSE Resolve(c, op)

\* Faulty variant of create_cheque_buy_header: the cheque row is inserted as
\* accredited.
create_cheque_buy_header_accredited(c) ==
    LET op == conn[c].op
        operation_id == Len(db.operations) + 1
    IN  /\ conn[c].pc = "post"
        /\ op.kind = "cheque_buy"
        /\ IF get_id_by_code("operation_types", "CHEQUE_BUY")
             THEN Begin(c, Insert(Insert(db, "operations",
                            Operation(op.date, "CHEQUE_BUY", conn[c].party_id,
                                      op.nominal_amount, op.currency, 0)),
                          "cheques",
                            [operation_id |-> operation_id,
                             party_id |-> conn[c].party_id,
                             nominal_amount |-> op.nominal_amount,
                             due_date |-> op.due_date,
                             interest_rate |-> op.interest_rate,
                             interest_base |-> op.interest_base,
                             expenses |-> op.expenses_amount,
                             commissions |-> op.commissions_amount,
                             net_amount |-> cheque_net_amount(op),
                             status |-> "accredited",
                             currency |-> op.currency]))
             ELSE /\ Raise(c, op, 400)
                  /\ UNCHANGED <<budget, accounts>>

\* create_cheque_buy: operation type lookup, operation header and cheque row
create_cheque_buy_header(c) ==
    LET op == conn[c].op
        operation_id == Len(db.operations) + 1
    IN  /\ conn[c].pc = "post"
        /\ op.kind = "cheque_buy"
        /\ IF get_id_by_code("operation_types", "CHEQUE_BUY")
             THEN Begin(c, Insert(Insert(db, "operations",
                            Operation(op.date, "CHEQUE_BUY", conn[c].party_id,
                                      op.nominal_amount, op.currency, 0)),
                          "cheques",
                            [operation_id |-> operation_id,
                             party_id |-> conn[c].party_id,
                             nominal_amount |-> op.nominal_amount,
                             due_date |-> op.due_date,
                             interest_rate |-> op.interest_rate,
                             interest_base |-> op.interest_base,
                             expenses |-> op.expenses_amount,
                             commissions |-> op.commissions_amount,
                             net_amount |-> cheque_net_amount(op),
                             status |-> "pending",
                             currency |-> op.currency]))
             ELSE /\ Raise(c, op, 400)
                  /\ UNCHANGED <<budget, accounts>>

\* create_cheque_buy: account lookups and the journal lines
create_cheque_buy_lines(c) ==
    LET op == conn[c].op
    IN  /\ conn[c].pc = "lines"
        /\ op.kind = "cheque_buy"
        /\ IF /\ get_id_by_code("accounts", "1200")
              /\ get_id_by_code("accounts", cash_account_code(op))
              /\ get_id_by_code("accounts", "5400")
              /\ get_id_by_code("accounts", "5200")
              /\ get_id_by_code("accounts", "5300")
             THEN Write(c, InsertAll(work, "journal_entries",
                                     cheque_lines(op, Len(work.operations))))
             ELSE /\ Raise(c, op, 400)
                  /\ UNCHANGED <<budget, accounts>>

\* create_cheque_buy: commit and response
create_cheque_buy_commit(c) ==
    /\ conn[c].pc = "commit"
    /\ conn[c].op.kind = "cheque_buy"
    /\ Commit(c, [kind |-> "cheque_buy", status |-> 200, op |-> conn[c].op,
                  operation_id |-> Len(work.operations),
                  interest_amount |-> cheque_interest_amount(conn[c].op),
                  commissions_amount |-> conn[c].op.commissions_amount,
                  expenses_amount |-> conn[c].op.expenses_amount,
                  net_amount |-> cheque_net_amount(conn[c].op)])

(***************************************************************************)
(* Reporting                                                               *)
(***************************************************************************)
\* An SQL scalar: << >> is NULL, << v >> the value v.
COALESCE(x, default) == IF x = << >> THEN default ELSE x[1]

\* Faulty variant of position_sum: no SUM, the first matching line is taken.
position_sum_first_line(store, account, currency) ==
    LET rows == SelectSeq(store.journal_entries,
                          LAMBDA je : je.account = account /\ je.currency = currency)
    IN  IF rows = << >> THEN << >> ELSE << rows[1].debit - rows[1].credit >>

\* Faulty variant of position_sum: the account is not filtered on.
position_sum_any_account(store, account, currency) ==
    LET rows == SelectSeq(store.journal_entries, LAMBDA je : je.currency = currency)
    IN  IF rows = << >> THEN << >> ELSE << SumDebit(rows) - SumCredit(rows) >>

\* SELECT SUM(debit) - SUM(credit) FROM journal_entries
\*   WHERE account_id = ? AND currency_id = (... code = ?)
position_sum(store, account, currency) ==
    LET rows == SelectSeq(store.journal_entries,
                          LAMBDA je : je.account = account /\ je.currency = currency)
    IN  IF rows = << >> THEN << >> ELSE << SumDebit(rows) - SumCredit(rows) >>

\* GET /reports/position
get_position ==
    /\ resp' =
         IF get_id_by_code("accounts", "1020") /\ get_id_by_code("accounts", "1010")
         THEN [kind |-> "position", status |-> 200,
               usd_position |-> COALESCE(position_sum(db, "1020", "USD"), 0),
               ars_balance |-> COALESCE(position_sum(db, "1010", "ARS"), 0)]
         ELSE [kind |-> "position", status |-> 400]
    /\ UNCHANGED <<accounts, db, work, lock, conn, budget>>

\* The account codes client_ledger selects for a party type and a currency
\* filter.
ledger_codes(party_type, currency) ==
    (IF currency \in {NoCurrency, "ARS"}
     THEN {IF party_type = "client" THEN "1100" ELSE "2100"} ELSE {})
    \cup
    (IF currency \in {NoCurrency, "USD"}
     THEN {IF party_type = "client" THEN "1101" ELSE "2101"} ELSE {})

\* Faulty variant of ledger_select: the operations of every party are kept.
ledger_select_any_party(store, q, party_id, party_type) ==
    {i \in 1..Len(store.journal_entries) :
        LET je == store.journal_entries[i]
            o == store.operations[je.operation_id]
        IN  /\ je.account \in ledger_codes(party_type, q.currency)
            /\ (q.start_date # NoDate => o.date >= q.start_date)
            /\ (q.end_date # NoDate => o.date <= q.end_date)}

\* The ids of the journal lines the ledger query joins and keeps.
ledger_select(store, q, party_id, party_type) ==
    {i \in 1..Len(store.journal_entries) :
        LET je == store.journal_entries[i]
            o == store.operations[je.operation_id]
        IN  /\ je.account \in ledger_codes(party_type, q.currency)
            /\ o.party_id = party_id
            /\ (q.start_date # NoDate => o.date >= q.start_date)
            /\ (q.end_date # NoDate => o.date <= q.end_date)}

\* ORDER BY o.date ASC, je.id ASC
RECURSIVE ledger_order(_, _)
ledger_order(store, ids) ==
    IF ids = {} THEN << >>
    ELSE LET date(i) == store.operations[store.journal_entries[i].operation_id].date
             first == CHOOSE i \in ids : \A j \in ids :
                          \/ date(i) < date(j)
                          \/ date(i) = date(j) /\ i <= j
         IN  << first >> \o ledger_order(store, ids \ {first})

\* Faulty variant of ledger_rows: one running balance for all currencies.
RECURSIVE ledger_rows_one_balance(_, _, _)
ledger_rows_one_balance(store, ids, balances) ==
    IF ids = << >> THEN << >>
    ELSE LET je == store.journal_entries[Head(ids)]
             o == store.operations[je.operation_id]
             amount == je.debit - je.credit
             updated == [cur \in DOMAIN balances |-> balances[cur] + amount]
         IN  << [date |-> o.date, operation_type |-> o.operation_type,
                 debit |-> je.debit, credit |-> je.credit,
                 currency |-> je.currency, balance |-> updated[je.currency]] >>
             \o ledger_rows_one_balance(store, Tail(ids), updated)

\* The loop of client_ledger: one ledger row per fetched row, with the running
\* balance of the row's currency.
RECURSIVE ledger_rows(_, _, _)
ledger_rows(store, ids, balances) ==
    IF ids = << >> THEN << >>
    ELSE LET je == store.journal_entries[Head(ids)]
             o == store.operations[je.operation_id]
             amount == je.debit - je.credit
             updated == [balances EXCEPT ![je.currency] = @ + amount]
         IN  << [date |-> o.date, operation_type |-> o.operation_type,
                 debit |-> je.debit, credit |-> je.credit,
                 currency |-> je.currency, balance |-> updated[je.currency]] >>
             \o ledger_rows(store, Tail(ids), updated)

\* Faulty variant of client_ledger: the party is resolved with
\* get_or_create_party, so an unknown name gets a row and an empty ledger.
client_ledger_creates_party(q) ==
    LET party_id == party_by_name(db, q.party_name)
    IN  IF party_id = 0
        THEN /\ lock = NoLock
             /\ db' = Insert(db, "parties", [name |-> q.party_name, type |-> "client"])
             /\ work' = db'
             /\ resp' = [kind |-> "client_ledger", status |-> 200, q |-> q,
                         party_id |-> Len(db'.parties), rows |-> << >>]
             /\ UNCHANGED <<accounts, lock, conn, budget>>
        ELSE /\ resp' =
                  LET party_type == db.parties[party_id].type
                      ids == ledger_order(db, ledger_select(db, q, party_id, party_type))
                  IN  [kind |-> "client_ledger", status |-> 200, q |-> q,
                       party_id |-> party_id,
                       rows |-> ledger_rows(db, ids, [cur \in SeededCurrencies |-> 0])]
             /\ UNCHANGED <<accounts, db, work, lock, conn, budget>>

\* GET /reports/client_ledger
client_ledger(q) ==
    LET party_id == party_by_name(db, q.party_name)
    IN  /\ resp' =
             IF party_id = 0
             THEN [kind |-> "client_ledger", status |-> 404, q |-> q]
             ELSE LET party_type == db.parties[party_id].type
                      ids == ledger_order(db, ledger_select(db, q, party_id, party_type))
                  IN  [kind |-> "client_ledger", status |-> 200, q |-> q,
                       party_id |-> party_id,
                       rows |-> ledger_rows(db, ids, [cur \in SeededCurrencies |-> 0])]
        /\ UNCHANGED <<accounts, db, work, lock, conn, budget>>

(***************************************************************************)
(* Cheque lifecycle                                                        *)
(***************************************************************************)
ChequeStatus == {"pending", "accredited", "expired", "rejected", "cancelled"}

\* GET /reports/cheques: the ids of the cheque rows, all of them when no
\* status is given.
list_cheques(status) ==
    /\ resp' = [kind |-> "list_cheques", status |-> 200, filter |-> status,
                rows |-> {k \in 1..Len(db.cheques) :
                             status = "" \/ db.cheques[k].status = status}]
    /\ UNCHANGED <<accounts, db, work, lock, conn, budget>>

\* The response of update_cheque_status.
StatusResponse(cheque_id, new_status, status) ==
    [kind |-> "update_cheque_status", status |-> status,
     cheque_id |-> cheque_id, new_status |-> new_status]

\* Faulty variant of update_cheque_status: the new status is not validated.
update_cheque_status_unvalidated(cheque_id, new_status) ==
    /\ IF cheque_id \notin 1..Len(db.cheques)
         THEN /\ resp' = StatusResponse(cheque_id, new_status, 404)
              /\ UNCHANGED <<db, work>>
         ELSE /\ lock = NoLock
              /\ db' = [db EXCEPT !.cheques[cheque_id].status = new_status]
              /\ work' = db'
              /\ resp' = StatusResponse(cheque_id, new_status, 200)
    /\ UNCHANGED <<accounts, lock, conn, budget>>

\* Faulty variant of update_cheque_status: the id is not looked up; an UPDATE
\* that matches no row is reported as done.
update_cheque_status_no_lookup(cheque_id, new_status) ==
    /\ IF new_status \notin ChequeStatus
         THEN /\ resp' = StatusResponse(cheque_id, new_status, 400)
              /\ UNCHANGED <<db, work>>
         ELSE /\ lock = NoLock
              /\ db' = [db EXCEPT !.cheques =
                          [k \in DOMAIN @ |->
                             IF k = cheque_id THEN [@[k] EXCEPT !.status = new_status]
                             ELSE @[k]]]
              /\ work' = db'
              /\ resp' = StatusResponse(cheque_id, new_status, 200)
    /\ UNCHANGED <<accounts, lock, conn, budget>>

\* Faulty variant of update_cheque_status: the UPDATE has no WHERE clause.
update_cheque_status_every_row(cheque_id, new_status) ==
    /\ IF new_status \notin ChequeStatus
         THEN /\ resp' = StatusResponse(cheque_id, new_status, 400)
              /\ UNCHANGED <<db, work>>
         ELSE IF cheque_id \notin 1..Len(db.cheques)
         THEN /\ resp' = StatusResponse(cheque_id, new_status, 404)
              /\ UNCHANGED <<db, work>>
         ELSE /\ lock = NoLock
              /\ db' = [db EXCEPT !.cheques =
                          [k \in DOMAIN @ |-> [@[k] EXCEPT !.status = new_status]]]
              /\ work' = db'
              /\ resp' = StatusResponse(cheque_id, new_status, 200)
    /\ UNCHANGED <<accounts, lock, conn, budget>>

\* Faulty variant of update_cheque_status: a rejected cheque has the journal
\* lines of its purchase taken out.
update_cheque_status_reverses(cheque_id, new_status) ==
    /\ IF new_status \notin ChequeStatus
         THEN /\ resp' = StatusResponse(cheque_id, new_status, 400)
              /\ UNCHANGED <<db, work>>
         ELSE IF cheque_id \notin 1..Len(db.cheques)
         THEN /\ resp' = StatusResponse(cheque_id, new_status, 404)
              /\ UNCHANGED <<db, work>>
         ELSE /\ lock = NoLock
              /\ db' = [db EXCEPT
                          !.cheques[cheque_id].status = new_status,
                          !.journal_entries =
                             IF new_status = "rejected"
                             THEN SelectSeq(@, LAMBDA je :
                                     je.operation_id # db.cheques[cheque_id].operation_id)
                             ELSE @]
              /\ work' = db'
              /\ resp' = StatusResponse(cheque_id, new_status, 200)
    /\ UNCHANGED <<accounts, lock, conn, budget>>

\* POST /cheques/{cheque_id}/status, on a connection of its own: the status
\* check, the SELECT, and the UPDATE with its commit, which needs the write
\* lock.
update_cheque_status(cheque_id, new_status) ==
    /\ IF new_status \notin ChequeStatus
         THEN /\ resp' = StatusResponse(cheque_id, new_status, 400)
              /\ UNCHANGED <<db, work>>
         ELSE IF cheque_id \notin 1..Len(db.cheques)
         THEN /\ resp' = StatusResponse(cheque_id, new_status, 404)
              /\ UNCHANGED <<db, work>>
         ELSE /\ lock = NoLock
              /\ db' = [db EXCEPT !.cheques[cheque_id].status = new_status]
              /\ work' = db'
              /\ resp' = StatusResponse(cheque_id, new_status, 200)
    /\ UNCHANGED <<accounts, lock, conn, budget>>

(***************************************************************************)
(* Requests                                                                *)
(***************************************************************************)
FXOperationCreate(names, fx_types, amounts) ==
    {[kind |-> "fx", date |-> 1, party_name |-> n, fx_type |-> t,
      usd_amount |-> a[1], exchange_rate |-> a[2]] :
        n \in names, t \in fx_types, a \in amounts}

PaymentOperationCreate(names, dates, currencies, amounts) ==
    {[kind |-> "payment", date |-> d, party_name |-> n, currency |-> cur,
      gross_amount |-> a[1], commission_amount |-> a[2],
      commission_percentage |-> a[3], expenses_amount |-> a[4]] :
        n \in names, d \in dates, cur \in currencies, a \in amounts}

ReceiptOperationCreate(names, dates, currencies, amounts) ==
    {[kind |-> "receipt", date |-> d, party_name |-> n, currency |-> cur,
      gross_amount |-> a[1], commission_amount |-> a[2],
      commission_percentage |-> a[3], expenses_amount |-> a[4]] :
        n \in names, d \in dates, cur \in currencies, a \in amounts}

ChequeBuyOperationCreate(names, currencies, terms) ==
    {[kind |-> "cheque_buy", date |-> t[2], party_name |-> n, currency |-> cur,
      nominal_amount |-> t[1], due_date |-> t[3], interest_rate |-> t[4],
      interest_base |-> 365, commissions_amount |-> t[5],
      expenses_amount |-> t[6]] :
        n \in names, cur \in currencies, t \in terms}

LedgerQuery(names, currencies, ranges) ==
    {[party_name |-> n, currency |-> cur, start_date |-> r[1], end_date |-> r[2]] :
        n \in names, cur \in currencies, r \in ranges}

PartyCreate(names, types) == {[name |-> n, type |-> t] : n \in names, t \in types}

(***************************************************************************)
(* Next-state relation                                                     *)
(***************************************************************************)
InitWith(charts, requests) ==
    /\ accounts \in charts
    /\ db = EmptyDB
    /\ work = EmptyDB
    /\ lock = NoLock
    /\ conn = [c \in Conns |-> Idle]
    /\ resp = NoResp
    /\ budget = requests

\* C: the connections that serve posting requests; R, P, Q: the posting
\* requests, the POST /parties bodies and the ledger queries that may arrive.
Step(C, R, P, Q) ==
    \/ \E p \in P : create_party(p.name, p.type)
    \/ \E c \in C : get_or_create_party(c)
    \/ \E c \in C, op \in R : create_fx(c, op)
    \/ \E c \in C : create_fx_header(c)
    \/ \E c \in C : create_fx_lines(c)
    \/ \E c \in C : create_fx_commit(c)
    \/ \E c \in C, op \in R : create_payment(c, op)
    \/ \E c \in C : create_payment_header(c)
    \/ \E c \in C : create_payment_lines(c)
    \/ \E c \in C : create_payment_commit(c)
    \/ \E c \in C, op \in R : create_receipt(c, op)
    \/ \E c \in C : create_receipt_header(c)
    \/ \E c \in C : create_receipt_lines(c)
    \/ \E c \in C : create_receipt_commit(c)
    \/ \E c \in C, op \in R : create_cheque_buy(c, op)
    \/ \E c \in C : create_cheque_buy_header(c)
    \/ \E c \in C : create_cheque_buy_lines(c)
    \/ \E c \in C : create_cheque_buy_commit(c)
    \/ get_position
    \/ \E q \in Q : client_ledger(q)

\* Concurrent connections, any chart of accounts, a few requests.
Requests ==
    FXOperationCreate({"A"}, {"buy", "swap"}, {<<50, 25>>})
    \cup PaymentOperationCreate({"A"}, {1}, {"ARS", "EUR"}, {<<100000, 0, 10, 5000>>})
    \cup ReceiptOperationCreate({"A"}, {2}, {"USD"},
                                {<<200000, 0, 5, 0>>, <<10000, 20000, 0, 0>>})
    \cup ChequeBuyOperationCreate({"B"}, {"ARS"},
                                  {<<1000000, 1, 31, 10, 20000, 5000>>,
                                   <<10000, 1, 31, 10, 20000, 0>>})

Parties == PartyCreate({"A"}, {"supplier"})

Queries == LedgerQuery({"A", "Z"}, {NoCurrency}, {<<NoDate, NoDate>>})

Init == InitWith(Charts, MaxReq)

Next == Step(Conns, Requests, Parties, Queries)

Spec == Init /\ [][Next]_vars

\* One connection, the seeded chart of accounts, requests over the ranges of
\* amounts the handlers distinguish: zero, negative, percentage, rounding tie.
PostingRequests ==
    FXOperationCreate({"A"}, {"buy", "sell", "swap"}, {<<10000, 140000>>, <<50, 25>>})
    \cup PaymentOperationCreate({"A"}, {1}, {"ARS", "USD", "EUR"},
                                {<<100000, 0, 10, 5000>>, <<0, 0, 0, 0>>,
                                 <<100000, -10000, 0, 0>>, <<1250, 0, 1, 0>>})
    \cup ReceiptOperationCreate({"A"}, {1}, {"ARS", "USD"},
                                {<<200000, 0, 5, 0>>, <<10000, 10000, 0, 0>>,
                                 <<10000, 0, 0, 20000>>, <<1250, 0, 1, 5>>})
    \cup ChequeBuyOperationCreate({"B"}, {"ARS", "USD"},
                                  {<<1000000, 1, 31, 10, 20000, 5000>>,
                                   <<1000000, 2, 1, 10, 0, 0>>,
                                   <<10000, 1, 1, 10, 10000, 0>>,
                                   <<10000, 1, 31, 10, 20000, 0>>})

InitPosting == InitWith({SeededAccounts}, MaxPostings)

NextPosting == Step({"c1"}, PostingRequests, Parties, Queries)

SpecPosting == InitPosting /\ [][NextPosting]_vars

\* One connection, the seeded chart, payments and receipts of two parties in
\* both currencies on two dates, and ledger queries with every kind of filter.
LedgerRequests ==
    PaymentOperationCreate({"A"}, {2}, {"ARS", "USD"}, {<<100000, 0, 0, 0>>})
    \cup ReceiptOperationCreate({"A"}, {1}, {"ARS", "USD"}, {<<30000, 0, 0, 0>>})
    \cup ReceiptOperationCreate({"B"}, {1}, {"ARS"}, {<<70000, 0, 10, 0>>})
    \cup FXOperationCreate({"A"}, {"sell"}, {<<10000, 140000>>})
    \cup ChequeBuyOperationCreate({"A"}, {"ARS"}, {<<1000000, 1, 31, 10, 20000, 5000>>})

LedgerQueries ==
    LedgerQuery({"A"}, {NoCurrency, "USD"}, {<<NoDate, NoDate>>, <<2, NoDate>>, <<NoDate, 1>>})
    \cup LedgerQuery({"B", "Z"}, {NoCurrency}, {<<NoDate, NoDate>>})

InitLedger == InitWith({SeededAccounts}, MaxLedger)

NextLedger == Step({"c1"}, LedgerRequests, Parties, LedgerQueries)

SpecLedger == InitLedger /\ [][NextLedger]_vars

\* The routes of the cheque lifecycle: U, the status updates, and S, the status
\* filters of the cheque list, that may arrive.
StepCheque(U, S) ==
    \/ \E u \in U : update_cheque_status(u[1], u[2])
    \/ \E s \in S : list_cheques(s)

\* One connection, the seeded chart; cheque purchases, accepted and refused,
\* among postings of the other kinds, and status updates of existing and
\* missing cheques to recognized and unrecognized statuses.
ChequeRequests ==
    ChequeBuyOperationCreate({"A"}, {"ARS"}, {<<1000000, 1, 31, 10, 20000, 5000>>,
                                             <<10000, 1, 31, 10, 20000, 0>>})
    \cup ChequeBuyOperationCreate({"B"}, {"USD"}, {<<10000, 1, 1, 10, 10000, 0>>})
    \cup FXOperationCreate({"A"}, {"buy"}, {<<50, 25>>})
    \cup PaymentOperationCreate({"A"}, {1}, {"ARS"}, {<<100000, 0, 10, 5000>>})
    \cup ReceiptOperationCreate({"A"}, {2}, {"ARS"}, {<<200000, 0, 5, 0>>})

StatusUpdates ==
    {1, 2, 3} \X {"pending", "accredited", "rejected", "bounced"}

StatusFilters == {"", "pending", "accredited"}

ChequeQueries == LedgerQuery({"A"}, {NoCurrency}, {<<NoDate, NoDate>>})

InitCheque == InitWith({SeededAccounts}, MaxCheque)

NextCheque ==
    \/ Step({"c1"}, ChequeRequests, Parties, ChequeQueries)
    \/ StepCheque(StatusUpdates, StatusFilters)

SpecCheque == InitCheque /\ [][NextCheque]_vars

\* One connection, any chart of accounts; postings under two names that differ
\* in case only, every report, with ledgers of a name that has no party row.
RegistryRequests ==
    FXOperationCreate({"A", "a"}, {"buy"}, {<<10000, 140000>>})
    \cup PaymentOperationCreate({"a"}, {1}, {"USD"}, {<<100000, 0, 10, 5000>>})
    \cup ReceiptOperationCreate({"A"}, {2}, {"USD"}, {<<200000, 0, 5, 0>>})
    \cup ChequeBuyOperationCreate({"a"}, {"USD"}, {<<1000000, 1, 31, 10, 20000, 5000>>})

RegistryQueries ==
    LedgerQuery({"A", "a", "Z"}, {NoCurrency}, {<<NoDate, NoDate>>})
    \cup LedgerQuery({"A"}, {"ARS", "EUR"}, {<<2, NoDate>>})

RegistryUpdates == {1, 2} \X {"accredited"}

InitRegistry == InitWith(Charts, MaxRegistry)

NextRegistry ==
    \/ Step({"c1"}, RegistryRequests, Parties, RegistryQueries)
    \/ StepCheque(RegistryUpdates, StatusFilters)

SpecRegistry == InitRegistry /\ [][NextRegistry]_vars

\* One connection, the seeded chart; receipts and cheque purchases with the
\* amounts the handlers accept without a check: a negative commission, a due
\* date before the operation date, next to ordinary ones.
AmountsRequests ==
    ReceiptOperationCreate({"A"}, {1}, {"ARS", "USD"},
                           {<<200000, 0, 5, 0>>, <<100000, 2000, 0, 5000>>,
                            <<100000, 0, 0, 0>>, <<100000, -10000, 0, 0>>})
    \cup ChequeBuyOperationCreate({"A"}, {"ARS", "USD"},
                                  {<<1000000, 1, 31, 10, 20000, 5000>>,
                                   <<1000000, 1, 31, 10, 20000, 0>>,
                                   <<1000000, 1, 1, 10, 0, 5000>>,
                                   <<1000000, 2, 1, 10, 0, 0>>,
                                   <<1000000, 2, 1, 10, 0, 137>>,
                                   <<1000000, 1, 1, 0, -10000, 5000>>})
    \cup PaymentOperationCreate({"A"}, {1}, {"ARS"}, {<<100000, 0, 10, 5000>>})
    \cup FXOperationCreate({"A"}, {"sell"}, {<<10000, 140000>>})

InitAmounts == InitWith({SeededAccounts}, MaxAmounts)

NextAmounts == Step({"c1"}, AmountsRequests, Parties, Queries)

SpecAmounts == InitAmounts /\ [][NextAmounts]_vars

(***************************************************************************)
(* Properties                                                              *)
(***************************************************************************)
RECURSIVE SetSum(_, _)
SetSum(S, f) ==
    IF S = {} THEN 0
    ELSE LET x == CHOOSE y \in S : TRUE IN f[x] + SetSum(S \ {x}, f)

Abs(x) == IF x < 0 THEN -x ELSE x

Rows(table) == 1..Len(table)

LineIds(operation_id) ==
    {k \in Rows(db.journal_entries) : db.journal_entries[k].operation_id = operation_id}

DebitTotal(ids) == SetSum(ids, [k \in ids |-> db.journal_entries[k].debit])

CreditTotal(ids) == SetSum(ids, [k \in ids |-> db.journal_entries[k].credit])

PostingKinds == {"fx", "payment", "receipt", "cheque_buy"}

\* C1: every committed payment has debit total = credit total, and both equal
\* the total_paid returned, gross + commission + expenses.
C1_PaymentBalanced ==
    /\ \A i \in Rows(db.operations) :
          db.operations[i].operation_type = "PAYMENT" =>
             DebitTotal(LineIds(i)) = CreditTotal(LineIds(i))
    /\ (resp.kind = "payment" /\ resp.status = 200) =>
          /\ CreditTotal(LineIds(resp.operation_id)) = resp.total_paid
          /\ \E k \in Rows(db.payment_details) :
                LET d == db.payment_details[k]
                IN  /\ d.operation_id = resp.operation_id
                    /\ resp.total_paid =
                         d.gross_amount + d.commission_amount + d.expenses_amount

DetailCount(table, i) == Cardinality({k \in Rows(table) : table[k].operation_id = i})

TheDetail(table, i) == table[CHOOSE k \in Rows(table) : table[k].operation_id = i]

Flag(b) == IF b THEN 1 ELSE 0

\* The number of journal lines the posting rule of operation i writes, read
\* off its detail row.
ExpectedLines(store, i) ==
    LET type == store.operations[i].operation_type
    IN  CASE type \in {"FX_BUY", "FX_SELL"} -> 2
          [] type = "PAYMENT" ->
               LET d == TheDetail(store.payment_details, i)
               IN  2 + Flag(d.commission_amount > 0) + Flag(d.expenses_amount > 0)
          [] type = "RECEIPT" ->
               LET d == TheDetail(store.receipt_details, i)
               IN  2 + Flag(d.commission_amount > 0) + Flag(d.expenses_amount > 0)
          [] type = "CHEQUE_BUY" ->
               LET d == TheDetail(store.cheques, i)
                   interest == d.nominal_amount - d.net_amount - d.commissions - d.expenses
               IN  2 + Flag(interest > 0) + Flag(d.commissions > 0) + Flag(d.expenses > 0)
          [] OTHER -> 0

\* Operation i of the store is whole: one detail row, of the table of its
\* type, and the full set of journal lines.
Whole(store, i) ==
    LET type == store.operations[i].operation_type
    IN  /\ DetailCount(store.fx_details, i) = Flag(type \in {"FX_BUY", "FX_SELL"})
        /\ DetailCount(store.payment_details, i) = Flag(type = "PAYMENT")
        /\ DetailCount(store.receipt_details, i) = Flag(type = "RECEIPT")
        /\ DetailCount(store.cheques, i) = Flag(type = "CHEQUE_BUY")
        /\ Cardinality({k \in Rows(store.journal_entries) :
                           store.journal_entries[k].operation_id = i})
             = ExpectedLines(store, i)

\* C2: in the committed store every operation header is there with its detail
\* row and all of its journal lines, and no detail row or journal line is
\* there without its header; a transaction that holds a journal line has
\* passed every code lookup of its handler, so nothing but the commit follows.
C2_Atomic ==
    /\ \A i \in Rows(db.operations) : Whole(db, i)
    /\ \A t \in {"journal_entries", "fx_details", "payment_details",
                 "receipt_details", "cheques"} :
          \A k \in Rows(db[t]) : db[t][k].operation_id \in Rows(db.operations)
    /\ (lock # NoLock /\ Len(work.journal_entries) > Len(db.journal_entries)) =>
          /\ conn[lock].pc = "commit"
          /\ \A i \in Rows(work.operations) : Whole(work, i)

\* A valid FX request failed on an account lookup after its header and its
\* fx_details row had been inserted, while the store holds an earlier
\* operation.
C2_Witness ==
    /\ resp.kind = "fx" /\ resp.status = 400
    /\ resp.op.fx_type = "buy"
    /\ Len(db.operations) >= 1

\* C3: a posting request that fails leaves no party row it inserted.
C3_NoStrandedParty ==
    (resp.kind \in PostingKinds /\ resp.status = 400) =>
        ~ /\ resp.created
          /\ resp.party_id \in Rows(db.parties)
          /\ db.parties[resp.party_id].name = resp.op.party_name

\* C4: every committed FX posting has exactly two journal lines: for a buy a
\* debit of usd_amount in USD on 1020 then a credit of ars_amount in ARS on
\* 1010, for a sell a debit of ars_amount in ARS on 1010 then a credit of
\* usd_amount in USD on 1020; ars_amount is usd_amount * exchange_rate to the
\* nearest cent, and fx_details holds the same two amounts.
C4_FxPosting ==
    \A i \in Rows(db.operations) :
       LET o == db.operations[i]
       IN  o.operation_type \in {"FX_BUY", "FX_SELL"} =>
              /\ DetailCount(db.fx_details, i) = 1
              /\ LET d == TheDetail(db.fx_details, i)
                     lines == LinesOf(db, i)
                     usd == [operation_id |-> i, account |-> "1020", currency |-> "USD"]
                     ars == [operation_id |-> i, account |-> "1010", currency |-> "ARS"]
                 IN  /\ d.usd_amount = o.amount
                     /\ 2 * Abs(100 * d.ars_amount - o.amount * o.exchange_rate) <= 100
                     /\ (d.fx_type = "buy") = (o.operation_type = "FX_BUY")
                     /\ d.fx_type \in {"buy", "sell"}
                     /\ lines =
                          IF d.fx_type = "buy"
                          THEN << usd @@ [debit |-> d.usd_amount, credit |-> 0],
                                  ars @@ [debit |-> 0, credit |-> d.ars_amount] >>
                          ELSE << ars @@ [debit |-> d.ars_amount, credit |-> 0],
                                  usd @@ [debit |-> 0, credit |-> d.usd_amount] >>

\* A sell whose ARS amount had to be rounded is committed.
C4_Witness ==
    \E i \in Rows(db.operations) :
       /\ db.operations[i].operation_type = "FX_SELL"
       /\ (db.operations[i].amount * db.operations[i].exchange_rate) % 100 # 0
       /\ LineIds(i) # {}

\* C5: no cheque row ever has a negative net_amount, and a cheque purchase
\* whose net amount, nominal - interest - commissions - expenses, is negative
\* is answered 400 in a step that leaves the committed store and every open
\* transaction, hence the operations, journal_entries, cheques and parties
\* tables, as they were.
C5_ChequeNet ==
    /\ [](\A k \in Rows(db.cheques) : db.cheques[k].net_amount >= 0)
    /\ [][(/\ resp'.kind = "cheque_buy"
           /\ resp'.op.nominal_amount - cheque_interest_amount(resp'.op)
                - resp'.op.commissions_amount - resp'.op.expenses_amount < 0)
          => (resp'.status = 400 /\ db' = db /\ work' = work /\ lock' = lock)]_vars

\* A cheque purchase with a negative net amount has just been refused while
\* the store holds an earlier cheque.
C5_Witness ==
    /\ resp.kind = "cheque_buy" /\ resp.status = 400
    /\ resp.op.nominal_amount - cheque_interest_amount(resp.op)
         - resp.op.commissions_amount - resp.op.expenses_amount < 0
    /\ Len(db.cheques) >= 1
    /\ Len(db.journal_entries) >= 2

\* C6: every journal line has debit >= 0, credit >= 0 and exactly one of the
\* two nonzero.
C6_OneSidedLines ==
    \A k \in Rows(db.journal_entries) :
       LET je == db.journal_entries[k]
       IN  /\ je.debit >= 0
           /\ je.credit >= 0
           /\ (je.debit # 0) # (je.credit # 0)

\* C7: in a ledger the balance of each row is the sum of debit - credit over
\* that row and the earlier rows of the same currency.
C7_RunningBalance ==
    (resp.kind = "client_ledger" /\ resp.status = 200) =>
        \A i \in Rows(resp.rows) :
           LET same == {j \in 1..i : resp.rows[j].currency = resp.rows[i].currency}
           IN  resp.rows[i].balance =
                 SetSum(same, [j \in same |-> resp.rows[j].debit - resp.rows[j].credit])

\* A ledger with rows of both currencies, one of whose balances differs from
\* the sum over all the rows up to it.
C7_Witness ==
    /\ resp.kind = "client_ledger" /\ resp.status = 200
    /\ \E i \in Rows(resp.rows) :
          /\ \E j \in 1..i : resp.rows[j].currency # resp.rows[i].currency
          /\ resp.rows[i].balance #
               SetSum(1..i, [j \in 1..i |-> resp.rows[j].debit - resp.rows[j].credit])

\* The receivable or payable account of a party type in a currency.
PartyAccount(party_type, currency) ==
    IF party_type = "client"
    THEN (IF currency = "ARS" THEN "1100" ELSE "1101")
    ELSE (IF currency = "ARS" THEN "2100" ELSE "2101")

LedgerLast == resp.rows[Len(resp.rows)]

\* The journal lines on the account of the ledger's party in the currency of
\* the ledger's last row.
LedgerAccountLines ==
    {k \in Rows(db.journal_entries) :
        /\ db.journal_entries[k].account =
             PartyAccount(db.parties[resp.party_id].type, LedgerLast.currency)
        /\ db.journal_entries[k].currency = LedgerLast.currency}

PositionLines(account, currency) ==
    {k \in Rows(db.journal_entries) :
        /\ db.journal_entries[k].account = account
        /\ db.journal_entries[k].currency = currency}

DetailsIn(table, currency) ==
    {k \in Rows(table) : db.operations[table[k].operation_id].currency = currency}

FxOf(fx_type) == {k \in Rows(db.fx_details) : db.fx_details[k].fx_type = fx_type}

\* Cash moved in a currency by receipts, payments and cheque purchases.
CashFlow(currency) ==
    LET rec == DetailsIn(db.receipt_details, currency)
        pay == DetailsIn(db.payment_details, currency)
        chq == DetailsIn(db.cheques, currency)
    IN  SetSum(rec, [k \in rec |->
                 LET d == db.receipt_details[k]
                 IN  d.gross_amount - d.commission_amount - d.expenses_amount])
        - SetSum(pay, [k \in pay |->
                 LET d == db.payment_details[k]
                 IN  d.gross_amount + d.commission_amount + d.expenses_amount])
        - SetSum(chq, [k \in chq |-> db.cheques[k].net_amount])

\* C10: the ARS position is receipts' net_received - payments' total_paid -
\* FX buys' ars_amount + FX sells' ars_amount - cheque purchases' net_amount
\* over the committed ARS postings, and the USD position the same over the
\* USD postings with FX buys' usd_amount added and FX sells' subtracted.
C10_PositionIsCashFlow ==
    (resp.kind = "position" /\ resp.status = 200) =>
        LET buy == FxOf("buy")
            sell == FxOf("sell")
        IN  /\ resp.ars_balance =
                 CashFlow("ARS")
                 - SetSum(buy, [k \in buy |-> db.fx_details[k].ars_amount])
                 + SetSum(sell, [k \in sell |-> db.fx_details[k].ars_amount])
            /\ resp.usd_position =
                 CashFlow("USD")
                 + SetSum(buy, [k \in buy |-> db.fx_details[k].usd_amount])
                 - SetSum(sell, [k \in sell |-> db.fx_details[k].usd_amount])

\* A position reported after a payment and a receipt in ARS.
C10_Witness ==
    /\ resp.kind = "position" /\ resp.status = 200
    /\ DetailsIn(db.payment_details, "ARS") # {}
    /\ DetailsIn(db.receipt_details, "ARS") # {}
    /\ resp.ars_balance # 0

(***************************************************************************)
(* Properties: order of postings                                           *)
(***************************************************************************)
\* The store a posting of request op for party row party_id leaves when it
\* runs alone on store from its header to its commit.
Posted(store, op, party_id) ==
    LET operation_id == Len(store.operations) + 1
        party_type == store.parties[party_id].type
    IN  CASE op.kind = "fx" ->
               InsertAll(
                 Insert(Insert(store, "operations",
                          Operation(op.date,
                                    IF op.fx_type = "buy" THEN "FX_BUY" ELSE "FX_SELL",
                                    party_id, op.usd_amount, "USD", op.exchange_rate)),
                        "fx_details",
                          [operation_id |-> operation_id, usd_amount |-> op.usd_amount,
                           ars_amount |-> fx_ars_amount(op), fx_type |-> op.fx_type]),
                 "journal_entries", fx_lines(op, operation_id))
          [] op.kind = "payment" ->
               InsertAll(
                 Insert(Insert(store, "operations",
                          Operation(op.date, "PAYMENT", party_id, op.gross_amount,
                                    op.currency, 0)),
                        "payment_details",
                          [operation_id |-> operation_id,
                           gross_amount |-> op.gross_amount,
                           commission_amount |-> payment_commission(op),
                           commission_percentage |-> op.commission_percentage,
                           expenses_amount |-> op.expenses_amount]),
                 "journal_entries", payment_lines(op, operation_id, party_type))
          [] op.kind = "receipt" ->
               InsertAll(
                 Insert(Insert(store, "operations",
                          Operation(op.date, "RECEIPT", party_id, op.gross_amount,
                                    op.currency, 0)),
                        "receipt_details",
                          [operation_id |-> operation_id,
                           gross_amount |-> op.gross_amount,
                           commission_amount |-> receipt_commission(op),
                           commission_percentage |-> op.commission_percentage,
                           expenses_amount |-> op.expenses_amount]),
                 "journal_entries", receipt_lines(op, operation_id, party_type))
          [] op.kind = "cheque_buy" ->
               InsertAll(
                 Insert(Insert(store, "operations",
                          Operation(op.date, "CHEQUE_BUY", party_id, op.nominal_amount,
                                    op.currency, 0)),
                        "cheques",
                          [operation_id |-> operation_id, party_id |-> party_id,
                           nominal_amount |-> op.nominal_amount,
                           due_date |-> op.due_date,
                           interest_rate |-> op.interest_rate,
                           interest_base |-> op.interest_base,
                           expenses |-> op.expenses_amount,
                           commissions |-> op.commissions_amount,
                           net_amount |-> cheque_net_amount(op),
                           status |-> "pending", currency |-> op.currency]),
                 "journal_entries", cheque_lines(op, operation_id))

\* TRUE when the handler of request op answers 400 before it looks the party
\* up.
Refused(op) ==
    CASE op.kind = "fx" -> op.fx_type \notin {"buy", "sell"}
      [] op.kind = "payment" -> ~get_id_by_code("currencies", op.currency)
      [] op.kind = "receipt" ->
           receipt_net_received(op) < 0 \/ ~get_id_by_code("currencies", op.currency)
      [] op.kind = "cheque_buy" ->
           cheque_net_refused(op) \/ ~get_id_by_code("currencies", op.currency)

\* The store after request op has run alone on store, with every account of
\* the seeded chart there: the party row is inserted when the name is new,
\* then the posting follows.
Serial(store, op) ==
    IF Refused(op) THEN store
    ELSE LET found == party_by_name(store, op.party_name)
             with == IF found = 0
                     THEN Insert(store, "parties",
                                 [name |-> op.party_name, type |-> "client"])
                     ELSE store
         IN  Posted(with, op, party_by_name(with, op.party_name))

\* What get_position reports on a store.
Positions(store) ==
    << COALESCE(position_sum(store, "1020", "USD"), 0),
       COALESCE(position_sum(store, "1010", "ARS"), 0) >>

\* The step is the commit of a posting of connection c.
Commits(c) == conn[c].pc = "commit" /\ conn'[c].pc = "idle"

\* C11: when a posting B commits on a store, then for every posting request A
\* the positions after B then A are the positions after A then B; the store
\* B's commit leaves is the one B leaves when it runs alone.
C11_Commutative ==
    [][\A c \in Conns : Commits(c) =>
          /\ db' = Posted(db, conn[c].op, conn[c].party_id)
          /\ \A a \in PostingRequests :
                Positions(Serial(db', a))
                  = Positions(Serial(Serial(db, a), conn[c].op))]_vars

\* A second posting of another kind has been committed, and both the first
\* and the second moved ARS cash.
C11_Witness ==
    /\ resp.kind \in PostingKinds /\ resp.status = 200
    /\ Len(db.operations) = 2
    /\ db.operations[1].operation_type # db.operations[2].operation_type
    /\ \A i \in {1, 2} : \E k \in LineIds(i) :
          /\ db.journal_entries[k].account = "1010"
          /\ db.journal_entries[k].debit # db.journal_entries[k].credit

(***************************************************************************)
(* Properties: cheque lifecycle                                            *)
(***************************************************************************)
Recognized == {"pending", "accredited", "expired", "rejected", "cancelled"}

\* The step is a call of update_cheque_status.
StatusCall == resp'.kind = "update_cheque_status"

\* C12: update_cheque_status with a recognized new status and an id that
\* matches no cheque row answers 404 and leaves every cheque row, committed or
\* in an open transaction, as it was.
C12_NotFound ==
    [][(/\ StatusCall
        /\ resp'.new_status \in Recognized
        /\ resp'.cheque_id \notin Rows(db.cheques))
       => (/\ resp'.status = 404
           /\ db'.cheques = db.cheques
           /\ work'.cheques = work.cheques)]_vars

\* An update of a missing id has been answered 404 while the store holds a
\* cheque that is no longer pending.
C12_Witness ==
    /\ resp.kind = "update_cheque_status" /\ resp.status = 404
    /\ resp.new_status = "accredited"
    /\ \E k \in Rows(db.cheques) : db.cheques[k].status = "rejected"

\* C13: a cheque row is pending when it is inserted, and the status of a
\* cheque row changes only in a successful update_cheque_status call on its
\* id; hence a cheque that is not pending has had such a call.
C13_PendingUntilUpdated ==
    [][/\ \A k \in Rows(work'.cheques) \ Rows(work.cheques) :
             work'.cheques[k].status = "pending"
       /\ \A k \in Rows(db'.cheques) \ Rows(db.cheques) :
             db'.cheques[k].status = "pending"
       /\ \A k \in Rows(db'.cheques) \cap Rows(db.cheques) :
             db'.cheques[k].status # db.cheques[k].status =>
                /\ StatusCall
                /\ resp'.status = 200
                /\ resp'.cheque_id = k]_vars

\* A ledger has been reported while one cheque is accredited and a cheque
\* bought after that update is pending.
C13_Witness ==
    /\ resp.kind = "client_ledger"
    /\ Len(db.cheques) = 2
    /\ db.cheques[1].status = "accredited"
    /\ db.cheques[2].status = "pending"

\* C14: once the status of a cheque is accredited, expired, rejected or
\* cancelled, no later step changes it.
C14_Terminal ==
    [][\A k \in Rows(db.cheques) :
          db.cheques[k].status # "pending" =>
             db'.cheques[k].status = db.cheques[k].status]_vars

\* The ledger client_ledger reports for a party name on a store, unfiltered.
LedgerOf(store, name) ==
    LET party_id == party_by_name(store, name)
    IN  IF party_id = 0 THEN << >>
        ELSE ledger_rows(store,
               ledger_order(store,
                 ledger_select(store,
                               [party_name |-> name, currency |-> NoCurrency,
                                start_date |-> NoDate, end_date |-> NoDate],
                               party_id, store.parties[party_id].type)),
               [cur \in SeededCurrencies |-> 0])

\* C15: a successful update_cheque_status(cheque_id, new_status) sets the
\* status of that cheque; every other table, every other cheque row and every
\* other field of that cheque stay as they were, and so do the positions and
\* the ledger of every party.
C15_StatusOnly ==
    [][(StatusCall /\ resp'.status = 200) =>
          LET id == resp'.cheque_id
          IN  /\ \A t \in DOMAIN db \ {"cheques"} : db'[t] = db[t]
              /\ Len(db'.cheques) = Len(db.cheques)
              /\ \A k \in Rows(db.cheques) \ {id} : db'.cheques[k] = db.cheques[k]
              /\ db'.cheques[id].status = resp'.new_status
              /\ [db'.cheques[id] EXCEPT !.status = db.cheques[id].status]
                   = db.cheques[id]
              /\ Positions(db') = Positions(db)
              /\ \A n \in Names : LedgerOf(db', n) = LedgerOf(db, n)
              /\ UNCHANGED <<accounts, lock, conn>>]_vars

\* The first of two pending cheques has been rejected; the second is pending.
C15_Witness ==
    /\ resp.kind = "update_cheque_status" /\ resp.status = 200
    /\ resp.cheque_id = 1 /\ resp.new_status = "rejected"
    /\ Len(db.cheques) = 2
    /\ db.cheques[1].status = "rejected"
    /\ db.cheques[2].status = "pending"
    /\ Len(db.journal_entries) >= 4

\* C16: the status of every cheque row is one of the five recognized values,
\* and update_cheque_status with any other new status answers 400 and leaves
\* every cheque row as it was, whether the id exists or not.
C16_RecognizedStatus ==
    /\ [](\A k \in Rows(db.cheques) : db.cheques[k].status \in Recognized)
    /\ [](\A k \in Rows(work.cheques) : work.cheques[k].status \in Recognized)
    /\ [][(StatusCall /\ resp'.new_status \notin Recognized)
          => (/\ resp'.status = 400
              /\ db'.cheques = db.cheques
              /\ work'.cheques = work.cheques)]_vars

\* An unrecognized status for the id of an existing cheque has been refused.
C16_Witness ==
    /\ resp.kind = "update_cheque_status" /\ resp.status = 400
    /\ resp.new_status \notin Recognized
    /\ resp.cheque_id \in Rows(db.cheques)
    /\ Len(db.cheques) = 1

(***************************************************************************)
(* Properties: receipts                                                    *)
(***************************************************************************)
\* The commissions a receipt request admits: gross * percentage / 100 to the
\* nearest cent when a nonzero percentage is given, else the amount given.
ReceiptCommissions(op) ==
    IF op.commission_percentage # 0
    THEN LET below == (op.gross_amount * op.commission_percentage) \div 100
         IN  {c \in {below, below + 1} :
                2 * Abs(100 * c - op.gross_amount * op.commission_percentage) <= 100}
    ELSE {op.commission_amount}

\* C17: a receipt whose net, gross - commission - expenses, is negative is
\* answered 400 in a step that leaves the committed store and every open
\* transaction, hence the party, operation, detail and journal rows, as they
\* were; a receipt that is committed returns that net, which is not negative
\* and is the amount debited to the cash account of its currency.
C17_ReceiptNet ==
    /\ [][(/\ resp'.kind = "receipt"
           /\ \A c \in ReceiptCommissions(resp'.op) :
                 resp'.op.gross_amount - c - resp'.op.expenses_amount < 0)
          => (resp'.status = 400 /\ db' = db /\ work' = work /\ lock' = lock)]_vars
    /\ []((resp.kind = "receipt" /\ resp.status = 200) =>
            \E c \in ReceiptCommissions(resp.op) :
               /\ resp.net_received = resp.op.gross_amount - c - resp.op.expenses_amount
               /\ resp.net_received >= 0
               /\ TheDetail(db.receipt_details, resp.operation_id).commission_amount = c
               /\ LET cash == {k \in LineIds(resp.operation_id) :
                                 db.journal_entries[k].account
                                   = (IF resp.op.currency = "ARS" THEN "1010" ELSE "1020")}
                  IN  /\ Cardinality(cash) = 1
                      /\ \A k \in cash :
                            /\ db.journal_entries[k].debit = resp.net_received
                            /\ db.journal_entries[k].credit = 0
                            /\ db.journal_entries[k].currency = resp.op.currency)

\* A receipt whose expenses exceed its gross amount has been refused, after a
\* receipt with a commission from a percentage was committed.
C17_Witness ==
    /\ resp.kind = "receipt" /\ resp.status = 400
    /\ resp.op.expenses_amount > resp.op.gross_amount
    /\ \E k \in Rows(db.receipt_details) :
          /\ db.receipt_details[k].commission_percentage # 0
          /\ db.receipt_details[k].commission_amount > 0

(***************************************************************************)
(* Properties: concurrent postings                                         *)
(***************************************************************************)
PartyAccounts == {"1100", "1101", "2100", "2101"}

\* The journal lines on receivable and payable accounts that were posted for
\* a party row of a given name.
LinesFor(name) ==
    {k \in Rows(db.journal_entries) :
        /\ db.journal_entries[k].account \in PartyAccounts
        /\ db.parties[db.operations[db.journal_entries[k].operation_id].party_id].name
             = name}

\* The journal lines the unfiltered ledger of a party name selects.
LedgerLines(name) ==
    LET party_id == party_by_name(db, name)
    IN  IF party_id = 0 THEN {}
        ELSE ledger_select(db, [party_name |-> name, currency |-> NoCurrency,
                                start_date |-> NoDate, end_date |-> NoDate],
                           party_id, db.parties[party_id].type)

\* C18, as stated: the committed journal holds whole operations only, and the
\* ledger of every party name is the one a serial order of the committed
\* postings produces: run one after the other, the postings for a name all
\* take the party row of that name, so its ledger holds every line posted on
\* a receivable or payable account for that name.  Stated for the names whose
\* party rows all come from postings (type client; the POST /parties bodies
\* taken here are suppliers).
C18_SerialLedgers ==
    /\ \A i \in Rows(db.operations) : Whole(db, i)
    /\ \A n \in Names :
          (\A i \in Rows(db.parties) :
              db.parties[i].name = n => db.parties[i].type = "client")
          => LedgerLines(n) = LinesFor(n)

\* C18, amended: the committed journal changes only when a posting commits,
\* and then the store becomes the one that posting leaves when it runs alone
\* on the store committed before it, for a party row that bears the name of
\* the request; so the positions and the totals of every account and of
\* every party row are those of the serial order in which the postings
\* committed.
C18_CommitOrder ==
    [][/\ \A c \in Conns : Commits(c) =>
             /\ conn[c].party_id \in Rows(db.parties)
             /\ db.parties[conn[c].party_id].name = conn[c].op.party_name
             /\ db' = Posted(db, conn[c].op, conn[c].party_id)
             /\ Positions(db') = Positions(Serial(db, conn[c].op))
       /\ (\E t \in DOMAIN db \ {"parties"} : db'[t] # db[t]) =>
             \E c \in Conns : Commits(c)]_vars

\* Two postings that ran at the same time for one new name have both been
\* committed, each for a party row of its own.
C18_Witness ==
    /\ resp.kind \in PostingKinds /\ resp.status = 200
    /\ Len(db.operations) = 2
    /\ Len(db.parties) = 2
    /\ db.parties[1].name = db.parties[2].name
    /\ db.operations[1].party_id # db.operations[2].party_id

(***************************************************************************)
(* Properties: append-only store, rounding                                 *)
(***************************************************************************)
AppendOnlyTables ==
    {"operations", "journal_entries", "fx_details", "payment_details",
     "receipt_details"}

\* C19: a committed operation header, journal line, or fx, payment or receipt
\* detail row is there with the same field values after every step, and so
\* is a committed cheque row but for its status.
C19_AppendOnly ==
    [][/\ \A t \in AppendOnlyTables : \A k \in Rows(db[t]) :
             /\ k \in Rows(db'[t])
             /\ db'[t][k] = db[t][k]
       /\ \A k \in Rows(db.cheques) :
             /\ k \in Rows(db'.cheques)
             /\ [db'.cheques[k] EXCEPT !.status = db.cheques[k].status]
                  = db.cheques[k]]_vars

\* The cheques are listed after a cheque purchase, the rejection of its
\* cheque and a later posting of another kind.
C19_Witness ==
    /\ resp.kind = "list_cheques"
    /\ Len(db.operations) = 2
    /\ db.operations[1].operation_type = "CHEQUE_BUY"
    /\ db.operations[2].operation_type # "CHEQUE_BUY"
    /\ db.cheques[1].status = "rejected"
    /\ LineIds(1) # {} /\ LineIds(2) # {}

\* num / den to the unit, ties away from zero; den > 0.
RoundHalfAway(num, den) ==
    IF num >= 0 THEN (2 * num + den) \div (2 * den)
    ELSE -((2 * (-num) + den) \div (2 * den))

\* C20: the ARS amount of every FX posting, the commission of every payment
\* and receipt with a percentage, and the interest of every cheque purchase
\* are the exact amount rounded to the cent with ties away from zero.
C20_HalfAwayFromZero ==
    /\ \A k \in Rows(db.fx_details) :
          LET d == db.fx_details[k]
          IN  d.ars_amount
                = RoundHalfAway(d.usd_amount * db.operations[d.operation_id].exchange_rate,
                                100)
    /\ \A t \in {"payment_details", "receipt_details"} : \A k \in Rows(db[t]) :
          LET d == db[t][k]
          IN  d.commission_percentage # 0 =>
                 d.commission_amount
                   = RoundHalfAway(d.gross_amount * d.commission_percentage, 100)
    /\ \A k \in Rows(db.cheques) :
          LET d == db.cheques[k]
              days == d.due_date - db.operations[d.operation_id].date
          IN  d.nominal_amount - d.net_amount - d.commissions - d.expenses
                = RoundHalfAway(d.nominal_amount * d.interest_rate * days,
                                100 * d.interest_base)

(***************************************************************************)
(* Properties: party registry, reports                                     *)
(***************************************************************************)
\* The party rows that bear exactly a name.
Named(store, name) == {i \in Rows(store.parties) : store.parties[i].name = name}

\* C21: the lookup of get_or_create_party inserts nothing and, when a party
\* row bears exactly the name of the request, gives the posting the id of such
\* a row; when none does, exactly one row with that name and type client is
\* inserted and its id given to the posting.  So postings that follow one
\* another leave at most one row for a name no POST /parties has used.
C21_GetOrCreate ==
    /\ [][\A c \in Conns :
            /\ (conn[c].pc = "idle" /\ conn'[c].pc \in {"post", "party_insert"}) =>
                  /\ db'.parties = db.parties
                  /\ IF Named(db, conn'[c].op.party_name) # {}
                       THEN /\ conn'[c].pc = "post"
                            /\ conn'[c].party_id \in Named(db, conn'[c].op.party_name)
                       ELSE conn'[c].pc = "party_insert"
            /\ (conn[c].pc = "party_insert" /\ conn'[c].pc = "post") =>
                  /\ db'.parties = Append(db.parties,
                                          [name |-> conn[c].op.party_name,
                                           type |-> "client"])
                  /\ conn'[c].party_id = Len(db'.parties)]_vars
    /\ [](\A i \in Rows(db.parties) :
            (\A j \in Named(db, db.parties[i].name) : db.parties[j].type = "client")
            => Named(db, db.parties[i].name) = {i})

\* Two postings for the new name "a" have been committed for one party row,
\* next to a row of the name "A".
C21_Witness ==
    /\ Len(db.operations) = 2
    /\ db.operations[1].party_id = db.operations[2].party_id
    /\ db.parties[db.operations[1].party_id].name = "a"
    /\ Cardinality(Named(db, "a")) = 1
    /\ Named(db, "A") # {}

ReportKinds == {"position", "list_cheques", "client_ledger"}

\* A step that answers a report leaves the store, the open transaction and
\* the connections as they were.
ReportsReadOnly ==
    resp'.kind \in ReportKinds =>
        /\ db' = db /\ work' = work /\ lock' = lock
        /\ conn' = conn /\ accounts' = accounts

\* A ledger is answered 404 exactly when no party row bears the name, and for
\* a party none of whose operations has a line on a receivable or payable
\* account it is the empty list.
LedgerAnswers ==
    resp.kind = "client_ledger" =>
        /\ resp.status \in {200, 404}
        /\ (resp.status = 404) = (Named(db, resp.q.party_name) = {})
        /\ resp.status = 200 =>
              ((\A k \in Rows(db.journal_entries) :
                   \/ db.journal_entries[k].account \notin PartyAccounts
                   \/ db.operations[db.journal_entries[k].operation_id].party_id
                        # resp.party_id)
               => resp.rows = << >>)

\* C22, as stated: the reports are read-only, a ledger answers as above, and
\* no report fails but a ledger of a name without a party row.
C22_FailOnlyOnParty ==
    /\ [][ReportsReadOnly]_vars
    /\ [](LedgerAnswers)
    /\ [](resp.kind \in ReportKinds /\ resp.status # 200 =>
            resp.kind = "client_ledger" /\ resp.status = 404)

\* C22, amended: the reports are read-only, a ledger answers as above, and no
\* report fails but a ledger of a name without a party row, with 404, and a
\* position when the chart lacks the cash account 1020 or 1010, with 400.
C22_FailOnlyOnPartyOrAccount ==
    /\ [][ReportsReadOnly]_vars
    /\ [](LedgerAnswers)
    /\ [](resp.kind \in ReportKinds /\ resp.status # 200 =>
            \/ resp.kind = "client_ledger" /\ resp.status = 404
            \/ /\ resp.kind = "position" /\ resp.status = 400
               /\ ~({"1020", "1010"} \subseteq accounts))
    /\ [](resp.kind = "list_cheques" => resp.status = 200)

\* The ledger of a name without a party row has been answered 404 while the
\* store holds parties and journal lines.
C22_Witness ==
    /\ resp.kind = "client_ledger" /\ resp.status = 404
    /\ Named(db, resp.q.party_name) = {}
    /\ db.parties # << >>
    /\ db.journal_entries # << >>

(***************************************************************************)
(* Properties: line sets of receipts and cheque purchases                  *)
(***************************************************************************)
\* A journal line of operation i, by account, side and amount.
Line(i, account, debit, credit, currency) ==
    [operation_id |-> i, account |-> account, debit |-> debit, credit |-> credit,
     currency |-> currency]

Optional(b, line) == IF b THEN << line >> ELSE << >>

CashAccount(currency) == IF currency = "ARS" THEN "1010" ELSE "1020"

\* C23: every committed receipt has these lines and no other: a credit of
\* gross on the party account, a debit of net_received on the cash account, a
\* credit of the commission on 5200 if it is > 0, a credit of the expenses on
\* 5200 if they are > 0; its debit total is net_received, its credit total
\* gross + commission + expenses, and the two differ when the commission or
\* the expenses are nonzero.
C23_ReceiptLines ==
    \A i \in Rows(db.operations) :
       db.operations[i].operation_type = "RECEIPT" =>
          LET o == db.operations[i]
              d == TheDetail(db.receipt_details, i)
              net == d.gross_amount - d.commission_amount - d.expenses_amount
          IN  /\ LinesOf(db, i) =
                   << Line(i, PartyAccount(db.parties[o.party_id].type, o.currency),
                           0, d.gross_amount, o.currency),
                      Line(i, CashAccount(o.currency), net, 0, o.currency) >>
                   \o Optional(d.commission_amount > 0,
                               Line(i, "5200", 0, d.commission_amount, o.currency))
                   \o Optional(d.expenses_amount > 0,
                               Line(i, "5200", 0, d.expenses_amount, o.currency))
              /\ DebitTotal(LineIds(i)) = net
              /\ CreditTotal(LineIds(i))
                   = d.gross_amount + d.commission_amount + d.expenses_amount
              /\ (d.commission_amount # 0 \/ d.expenses_amount # 0) =>
                    DebitTotal(LineIds(i)) # CreditTotal(LineIds(i))

\* The interest of the purchase of a cheque row: what its net amount leaves
\* of the nominal amount after commissions and expenses.
InterestOf(d) == d.nominal_amount - d.net_amount - d.commissions - d.expenses

\* C24: every committed cheque purchase has these lines and no other: a debit
\* of the nominal amount on 1200, a credit of the net amount on the cash
\* account of its currency, a credit of the interest on 5400 if it is > 0, a
\* credit of the commissions on 5200 if they are > 0, a debit of the expenses
\* on 5300 if they are > 0; and with expenses > 0 its debit total and its
\* credit total differ.
C24_ChequeLines ==
    \A i \in Rows(db.operations) :
       db.operations[i].operation_type = "CHEQUE_BUY" =>
          LET o == db.operations[i]
              d == TheDetail(db.cheques, i)
          IN  /\ LinesOf(db, i) =
                   << Line(i, "1200", d.nominal_amount, 0, o.currency),
                      Line(i, CashAccount(o.currency), 0, d.net_amount, o.currency) >>
                   \o Optional(InterestOf(d) > 0,
                               Line(i, "5400", 0, InterestOf(d), o.currency))
                   \o Optional(d.commissions > 0,
                               Line(i, "5200", 0, d.commissions, o.currency))
                   \o Optional(d.expenses > 0,
                               Line(i, "5300", d.expenses, 0, o.currency))
              /\ d.expenses > 0 => DebitTotal(LineIds(i)) # CreditTotal(LineIds(i))

\* C28: every committed cheque purchase without expenses is balanced: its
\* debit total and its credit total both equal the nominal amount.
C28_ChequeBalanced ==
    \A i \in Rows(db.operations) :
       (/\ db.operations[i].operation_type = "CHEQUE_BUY"
        /\ TheDetail(db.cheques, i).expenses = 0) =>
          /\ DebitTotal(LineIds(i)) = TheDetail(db.cheques, i).nominal_amount
          /\ CreditTotal(LineIds(i)) = TheDetail(db.cheques, i).nominal_amount

(***************************************************************************)
(* Cheque purchase: the amounts answered                                   *)
(***************************************************************************)
\* The lines of operation i on the given account.
LinesOn(i, account) == {k \in LineIds(i) : db.journal_entries[k].account = account}

\* C25: for every accepted cheque purchase, with days = due_date - date, the
\* interest_amount answered is nominal_amount * interest_rate * days /
\* interest_base rounded to the nearest cent, the net_amount answered is
\* nominal_amount - interest_amount - commissions - expenses, the cash line
\* of the operation credits the net_amount answered, the interest line
\* exists exactly when the interest answered is positive and then credits
\* it, and the new cheque row stores the net_amount answered.
C25_ChequeAmounts ==
    (resp.kind = "cheque_buy" /\ resp.status = 200) =>
        LET op == resp.op
            i == resp.operation_id
            days == op.due_date - op.date
            num == op.nominal_amount * op.interest_rate * days
            den == 100 * op.interest_base
        IN  /\ 2 * Abs(resp.interest_amount * den - num) <= den
            /\ resp.net_amount = op.nominal_amount - resp.interest_amount
                                   - op.commissions_amount - op.expenses_amount
            /\ i \in Rows(db.operations)
            /\ \E k \in LinesOn(i, CashAccount(op.currency)) :
                  /\ LinesOn(i, CashAccount(op.currency)) = {k}
                  /\ db.journal_entries[k].credit = resp.net_amount
                  /\ db.journal_entries[k].debit = 0
            /\ IF resp.interest_amount > 0
                 THEN \E k \in LinesOn(i, "5400") :
                         /\ LinesOn(i, "5400") = {k}
                         /\ db.journal_entries[k].credit = resp.interest_amount
                 ELSE LinesOn(i, "5400") = {}
            /\ DetailCount(db.cheques, i) = 1
            /\ TheDetail(db.cheques, i).net_amount = resp.net_amount

\* A cheque purchase over 30 days with positive interest, commissions and
\* expenses has just been answered.
C25_Witness ==
    /\ resp.kind = "cheque_buy" /\ resp.status = 200
    /\ resp.op.due_date - resp.op.date = 30
    /\ resp.interest_amount > 0
    /\ resp.op.commissions_amount > 0 /\ resp.op.expenses_amount > 0
    /\ resp.net_amount < resp.op.nominal_amount
    /\ Len(db.cheques) >= 1

(***************************************************************************)
(* Payment and receipt: the accounts                                       *)
(***************************************************************************)
CashAccounts == {"1010", "1020"}

\* The lines of operation i on one of the given accounts.
LinesAmong(i, codes) == {k \in LineIds(i) : db.journal_entries[k].account \in codes}

\* C26: every committed payment and receipt of a supplier has its one
\* party-account line on the payable account of the operation currency (2100
\* for ARS, 2101 for USD) and every one of a client on the receivable account
\* (1100 for ARS, 1101 for USD); the line debits gross for a payment and
\* credits gross for a receipt; the one cash line is on 1010 for ARS and on
\* 1020 for USD.
C26_PartyAndCashAccounts ==
    \A i \in Rows(db.operations) :
       LET o == db.operations[i]
           type == db.parties[o.party_id].type
           payable == IF o.currency = "ARS" THEN "2100" ELSE "2101"
           receivable == IF o.currency = "ARS" THEN "1100" ELSE "1101"
           cash == IF o.currency = "ARS" THEN "1010" ELSE "1020"
           expected == IF type = "supplier" THEN payable ELSE receivable
       IN  (/\ o.operation_type \in {"PAYMENT", "RECEIPT"}
            /\ type \in {"client", "supplier"}
            /\ o.currency \in {"ARS", "USD"}) =>
              /\ \E k \in LinesAmong(i, PartyAccounts) :
                    /\ LinesAmong(i, PartyAccounts) = {k}
                    /\ db.journal_entries[k].account = expected
                    /\ IF o.operation_type = "PAYMENT"
                         THEN /\ db.journal_entries[k].debit =
                                   TheDetail(db.payment_details, i).gross_amount
                              /\ db.journal_entries[k].credit = 0
                         ELSE /\ db.journal_entries[k].credit =
                                   TheDetail(db.receipt_details, i).gross_amount
                              /\ db.journal_entries[k].debit = 0
              /\ \E k \in LinesAmong(i, CashAccounts) :
                    /\ LinesAmong(i, CashAccounts) = {k}
                    /\ db.journal_entries[k].account = cash

\* The store holds a payment to a supplier in one currency and a receipt from
\* it in the other.
C26_Witness ==
    \E i, j \in Rows(db.operations) :
       /\ db.operations[i].operation_type = "PAYMENT"
       /\ db.operations[j].operation_type = "RECEIPT"
       /\ db.operations[i].currency # db.operations[j].currency
       /\ db.parties[db.operations[i].party_id].type = "supplier"
       /\ db.parties[db.operations[j].party_id].type = "supplier"
       /\ LineIds(i) # {} /\ LineIds(j) # {}
       /\ TheDetail(db.payment_details, i).gross_amount > 0

(***************************************************************************)
(* The ledger of a party name                                              *)
(***************************************************************************)
\* C27: client_ledger for a party name, without currency or date filter,
\* answers one row for each journal line on a receivable or payable account
\* of the committed payments and receipts posted for that name, whichever
\* party row of that name each posting was attached to; it answers 404 only
\* when nothing was posted for the name.
C27_LedgerByName ==
    (/\ resp.kind = "client_ledger"
     /\ resp.q.currency = NoCurrency
     /\ resp.q.start_date = NoDate /\ resp.q.end_date = NoDate) =>
        IF resp.status = 200
        THEN Len(resp.rows) = Cardinality(LinesFor(resp.q.party_name))
        ELSE LinesFor(resp.q.party_name) = {}

(***************************************************************************)
(* Accounts and currencies                                                 *)
(***************************************************************************)
ARSAccounts == {"1010", "1100", "2100"}

USDAccounts == {"1020", "1101", "2101"}

\* The journal lines on an account, in any currency.
AccountLines(account) ==
    {k \in Rows(db.journal_entries) : db.journal_entries[k].account = account}

\* The journal lines of a party row on the accounts of its ledger, within
\* the dates of a query.
PartyLines(party_id, q) ==
    {k \in Rows(db.journal_entries) :
        LET o == db.operations[db.journal_entries[k].operation_id]
        IN  /\ db.journal_entries[k].account \in PartyAccounts
            /\ o.party_id = party_id
            /\ (q.start_date # NoDate => o.date >= q.start_date)
            /\ (q.end_date # NoDate => o.date <= q.end_date)}

\* C29: every journal line on 1010, 1100 or 2100 is in ARS and every line on
\* 1020, 1101 or 2101 is in USD; so a position is the debit minus credit
\* total of all the lines of its account, and a ledger filtered by a
\* currency, which selects on the account code, lists exactly the lines of
\* the party row in that currency, each in that currency.
C29_AccountCurrency ==
    /\ \A k \in Rows(db.journal_entries) :
          /\ db.journal_entries[k].account \in ARSAccounts
               => db.journal_entries[k].currency = "ARS"
          /\ db.journal_entries[k].account \in USDAccounts
               => db.journal_entries[k].currency = "USD"
    /\ (resp.kind = "position" /\ resp.status = 200) =>
          /\ resp.usd_position = DebitTotal(AccountLines("1020"))
                                   - CreditTotal(AccountLines("1020"))
          /\ resp.ars_balance = DebitTotal(AccountLines("1010"))
                                  - CreditTotal(AccountLines("1010"))
    /\ (/\ resp.kind = "client_ledger" /\ resp.status = 200
        /\ resp.q.currency # NoCurrency) =>
          /\ \A j \in Rows(resp.rows) : resp.rows[j].currency = resp.q.currency
          /\ Len(resp.rows) =
               Cardinality({k \in PartyLines(resp.party_id, resp.q) :
                              db.journal_entries[k].currency = resp.q.currency})

\* A ledger filtered by USD has just been answered with a row, for a party
\* that also has a line in ARS, while both cash accounts hold lines.
C29_Witness ==
    /\ resp.kind = "client_ledger" /\ resp.status = 200
    /\ resp.q.currency = "USD"
    /\ Len(resp.rows) >= 1
    /\ \E k \in PartyLines(resp.party_id, resp.q) :
          db.journal_entries[k].currency = "ARS"
    /\ AccountLines("1010") # {} /\ AccountLines("1020") # {}

(***************************************************************************)
(* What a ledger can list                                                  *)
(***************************************************************************)
LedgerKinds == {"PAYMENT", "RECEIPT"}

\* The committed operations attached to a party row.
OperationsOf(party_id) ==
    {i \in Rows(db.operations) : db.operations[i].party_id = party_id}

\* C30: no journal line of an FX trade or of a cheque purchase is on a
\* receivable or payable account (1100, 1101, 2100, 2101); so every row of a
\* client_ledger answer is of a PAYMENT or a RECEIPT, and the ledger of a
\* party row whose operations are all FX trades and cheque purchases is
\* empty.
C30_LedgerKinds ==
    /\ \A k \in Rows(db.journal_entries) :
          db.operations[db.journal_entries[k].operation_id].operation_type
             \notin LedgerKinds
          => db.journal_entries[k].account \notin PartyAccounts
    /\ (resp.kind = "client_ledger" /\ resp.status = 200) =>
          /\ \A j \in Rows(resp.rows) : resp.rows[j].operation_type \in LedgerKinds
          /\ (\A i \in OperationsOf(resp.party_id) :
                 db.operations[i].operation_type \notin LedgerKinds)
             => resp.rows = << >>

\* The ledger of a party with an FX trade and a cheque purchase, and nothing
\* else, has just been answered.
C30_Witness ==
    /\ resp.kind = "client_ledger" /\ resp.status = 200
    /\ resp.rows = << >>
    /\ \E i, j \in OperationsOf(resp.party_id) :
          /\ db.operations[i].operation_type = "CHEQUE_BUY"
          /\ db.operations[j].operation_type \notin LedgerKinds \cup {"CHEQUE_BUY"}
          /\ LineIds(i) # {} /\ LineIds(j) # {}
    /\ \A i \in OperationsOf(resp.party_id) :
          db.operations[i].operation_type \notin LedgerKinds

====
